---- MODULE Spec2Model ----
(***************************************************************************)
(* Model of cdk-toolkit-lib-sample: the command-line entry point           *)
(* (src/bin/index.ts) and the interactive approval gate InteractiveIoHost  *)
(* (src/unnamed/part_000).                                                 *)
(*                                                                         *)
(* JavaScript strings are sequences of one-character strings.  JavaScript  *)
(* values are tagged records [type, val] so that typeof is the tag.        *)
(***************************************************************************)
EXTENDS Integers, Sequences, FiniteSets, TLC

VARIABLES
    \* ---- InteractiveIoHost (src/unnamed/part_000)
    hostPc,                 \* "none" | "ready" | "waiting" | "settled"
    props,                  \* constructor argument: requireApproval or Absent
    requireDeployApproval,  \* the private field set by the constructor
    msg,                    \* the IoRequest being handled
    rlOpen,                 \* readline interfaces created and not yet closed
    rlCreated,              \* readline interfaces created by the current call
    asked,                  \* prompts passed to rl.question by the current call
    answer,                 \* what the operator typed
    outcome,                \* how the returned promise settled
    \* ---- bin/index.ts
    cliPc,                  \* "start" | "exited" | "executing" | "calling" | "done" | "failed"
    argv,                   \* the command line as typed
    config,                 \* result of commandConfigSchema.safeParse
    stderr,                 \* TRUE once the usage error was printed
    exitCode,               \* Absent, or the code given to process.exit
    cdkCli,                 \* configurations given to new CdkCli(...)
    executed,               \* configurations given to cdkCli.execute(...)
    \* ---- command executor (./cdk-cli)
    selected,               \* the stacks the cloud assembly selected
    calls,                  \* toolkit calls issued so far
    inFlight                \* number of toolkit calls started and not completed

hostVars == <<hostPc, props, requireDeployApproval, msg, rlOpen, rlCreated,
              asked, answer, outcome>>
cliVars  == <<cliPc, argv, config, stderr, exitCode, cdkCli, executed>>
execVars == <<selected, calls, inFlight>>
vars     == <<hostVars, cliVars, execVars>>

\* ------------------------------------------------------------------ bounds

\* longest answer the operator types
MaxLen == 3

\* most stack names typed on a command line, and most stacks selected
MaxStacks == 2

\* most --context options on a command line
MaxContext == 1

\* ------------------------------------------------------------------ values

Absent == "<absent>"

\* Characters the operator can type.  No sign, dot, 'x' or letters of
\* "Infinity"/"NaN" are among them, which Number() below relies on.
Chars == {" ", "0", "7", "e", "n", "s", "y", "Y"}

DigitChars == <<"0", "1", "2", "3", "4", "5", "6", "7", "8", "9">>

Digits == {DigitChars[i] : i \in 1..10}

StringsUpTo(n) == UNION {[1..k -> Chars] : k \in 0..n}


\* a finite non-negative number is m * 10^e with m not a multiple of 10
\* (m = 0 only with e = 0); NaN and Infinity are kinds of their own
Finite(m, e) == [kind |-> "finite", m |-> m, e |-> e]
NaN          == [kind |-> "NaN", m |-> 0, e |-> 0]
Infinity     == [kind |-> "Infinity", m |-> 0, e |-> 0]

\* a JavaScript value: its typeof and, in the field of that type, what it is
Undefined == [type |-> "undefined", b |-> FALSE, n |-> NaN, s |-> <<>>]
Bool(b)   == [Undefined EXCEPT !.type = "boolean", !.b = b]
Num(n)    == [Undefined EXCEPT !.type = "number", !.n = n]
Str(s)    == [Undefined EXCEPT !.type = "string", !.s = s]

RECURSIVE Normalize(_, _)
Normalize(m, e) ==
    IF m = 0 THEN Finite(0, 0)
    ELSE IF m % 10 = 0 THEN Normalize(m \div 10, e + 1)
    ELSE Finite(m, e)

\* ------------------------------------------------- JavaScript string functions

\* String.prototype.trim
RECURSIVE TrimStart(_)
TrimStart(s) ==
    IF s # <<>> /\ Head(s) = " " THEN TrimStart(Tail(s)) ELSE s

RECURSIVE TrimEnd(_)
TrimEnd(s) ==
    IF s # <<>> /\ s[Len(s)] = " " THEN TrimEnd(SubSeq(s, 1, Len(s) - 1)) ELSE s

Trim(s) == TrimEnd(TrimStart(s))

\* String.prototype.toLowerCase
ToLowerCase(s) == [i \in DOMAIN s |-> IF s[i] = "Y" THEN "y" ELSE s[i]]

DigitValue(c) == CHOOSE d \in 0..9 : DigitChars[d + 1] = c

RECURSIVE DigitsValue(_)
DigitsValue(s) ==
    IF s = <<>> THEN 0
    ELSE 10 * DigitsValue(SubSeq(s, 1, Len(s) - 1)) + DigitValue(s[Len(s)])

AllDigits(s) == s # <<>> /\ \A i \in DOMAIN s : s[i] \in Digits

RECURSIVE NumDigits(_)
NumDigits(m) == IF m < 10 THEN 1 ELSE 1 + NumDigits(m \div 10)

RECURSIVE LeadingDigit(_)
LeadingDigit(m) == IF m < 10 THEN m ELSE LeadingDigit(m \div 10)

\* a double holds magnitudes up to 1.79e308; larger literals read as Infinity
Overflows(n) ==
    /\ n.m # 0
    /\ \/ NumDigits(n.m) + n.e > 309
       \/ NumDigits(n.m) + n.e = 309 /\ LeadingDigit(n.m) >= 2

Literal(m, e) ==
    LET n == Normalize(m, e) IN IF Overflows(n) THEN Infinity ELSE n

\* Number(v) of a string v: surrounding white space is ignored, the empty
\* string is 0, a decimal literal with an optional exponent is its value and
\* anything else is NaN.
NumberOf(v) ==
    LET t  == Trim(v)
        es == {i \in DOMAIN t : t[i] = "e"}
    IN  IF t = <<>> THEN Finite(0, 0)
        ELSE IF AllDigits(t) THEN Literal(DigitsValue(t), 0)
        ELSE IF Cardinality(es) = 1
             THEN LET i == CHOOSE j \in es : TRUE
                      mant == SubSeq(t, 1, i - 1)
                      expo == SubSeq(t, i + 1, Len(t))
                  IN  IF AllDigits(mant) /\ AllDigits(expo)
                      THEN Literal(DigitsValue(mant), DigitsValue(expo))
                      ELSE NaN
        ELSE NaN

RECURSIVE DigitsOf(_)
DigitsOf(m) ==
    IF m < 10 THEN <<DigitChars[m + 1]>>
    ELSE Append(DigitsOf(m \div 10), DigitChars[(m % 10) + 1])

Zeros(k) == [i \in 1..k |-> "0"]

\* util.format(x) of a single argument: a string is returned as it is, a
\* number is printed in decimal, the other values by their names.  (Numbers
\* of 1e21 and more print with an exponent; the model's defaults are smaller.)
Format(x) ==
    CASE x.type = "string"    -> x.s
      [] x.type = "number"    ->
            ( CASE x.n.kind = "NaN"      -> <<"N", "a", "N">>
                [] x.n.kind = "Infinity" -> <<"I", "n", "f", "i", "n", "i", "t", "y">>
                [] OTHER                 -> DigitsOf(x.n.m) \o Zeros(x.n.e) )
      [] x.type = "boolean"   ->
            IF x.b THEN <<"t", "r", "u", "e">> ELSE <<"f", "a", "l", "s", "e">>
      [] OTHER                -> <<"u", "n", "d", "e", "f", "i", "n", "e", "d">>

\* ------------------------------------------------------- InteractiveIoHost

\* RequireApproval of aws-cdk-lib/cloud-assembly-schema
NEVER      == "never"
ANYCHANGE  == "any-change"
BROADENING == "broadening"
RequireApproval == {NEVER, ANYCHANGE, BROADENING}

\* the requests the toolkit may send
Codes == {"CDK_TOOLKIT_I5060", "CDK_TOOLKIT_I7010"}

PermissionChangeTypes == {"none", "non-broadening", "broadening"}

\* an optional field: present with a value, or absent
Some(v) == [has |-> TRUE, val |-> v]
None    == [has |-> FALSE, val |-> <<>>]
NoName  == [has |-> FALSE, val |-> ""]

\* msg.data: undefined, or an object whose fields may be missing
NoData ==
    [present |-> FALSE, permissionChangeType |-> Absent, responseDescription |-> None]

Datas ==
    {NoData} \cup
    [present : {TRUE},
     permissionChangeType : PermissionChangeTypes \cup {Absent},
     responseDescription : {None, Some(<<"d">>)}]

DefaultResponses ==
    {Bool(TRUE), Bool(FALSE), Num(Finite(0, 0)), Num(Finite(7, 1)),
     Str(<<>>), Str(<<" ", "y">>), Undefined}

Requests ==
    [code : Codes, message : {<<"o", "k", "?">>}, data : Datas,
     defaultResponse : DefaultResponses]

NoRequest ==
    [code |-> Absent, message |-> <<>>, data |-> NoData, defaultResponse |-> Undefined]

\* the promise requestResponse returns
Pending     == [kind |-> "pending", value |-> Undefined, error |-> ""]
Resolved(v) == [kind |-> "resolved", value |-> v, error |-> ""]
Rejected(e) == [kind |-> "rejected", value |-> Undefined, error |-> e]

\* msg.data?.permissionChangeType ?? ''
PermissionChangeTypeOf(m) ==
    IF ~m.data.present \/ m.data.permissionChangeType = Absent
    THEN ""
    ELSE m.data.permissionChangeType

\* skipApprovalStep with 'non-broadening' missing from the BROADENING list
SkipApprovalStepNoneOnly(policy, m) ==
    IF m.code \notin {"CDK_TOOLKIT_I5060"} THEN FALSE
    ELSE CASE policy = NEVER      -> TRUE
           [] policy = ANYCHANGE  -> FALSE
           [] policy = BROADENING -> PermissionChangeTypeOf(m) \in {"none"}

\* skipApprovalStep without the early return for the other codes
SkipApprovalStepAnyCode(policy, m) ==
    CASE policy = NEVER      -> TRUE
      [] policy = ANYCHANGE  -> FALSE
      [] policy = BROADENING ->
            PermissionChangeTypeOf(m) \in {"none", "non-broadening"}

\* skipApprovalStep(msg) of a host whose requireDeployApproval is policy
SkipApprovalStep(policy, m) ==
    IF m.code \notin {"CDK_TOOLKIT_I5060"} THEN FALSE
    ELSE CASE policy = NEVER      -> TRUE
           [] policy = ANYCHANGE  -> FALSE
           [] policy = BROADENING ->
                PermissionChangeTypeOf(m) \in {"none", "non-broadening"}

\* extractPromptInfo(request).default
PromptDefault(m) == Format(m.defaultResponse)

\* extractPromptInfo(request).convertAnswer
ConvertAnswer(m, v) ==
    IF m.defaultResponse.type = "number" THEN Num(NumberOf(v)) ELSE Str(v)

\* message.data?.responseDescription ?? prompt.default
DescOf(m) ==
    IF m.data.present /\ m.data.responseDescription.has
    THEN m.data.responseDescription.val
    ELSE PromptDefault(m)

\* the text given to rl.question
PromptText(m) ==
    IF m.defaultResponse.type # "boolean"
    THEN m.message
         \o (IF DescOf(m) # <<>> THEN <<" ", "(">> \o DescOf(m) \o <<")">> ELSE <<>>)
         \o <<":", " ">>
    ELSE m.message \o <<" ", "(", "y", "/", "n", ")", ":", " ">>

\* answer || prompt.default, the trim forgotten
FinalAnswerUntrimmed(m, a) == IF a # <<>> THEN a ELSE PromptDefault(m)

\* answer.trim() || prompt.default
FinalAnswer(m, a) == IF Trim(a) # <<>> THEN Trim(a) ELSE PromptDefault(m)

\* the comparison without toLowerCase
ConfirmedCaseSensitive(a) ==
    \/ Trim(a) = <<"y">>
    \/ Trim(a) = <<"y", "e", "s">>

\* answer.toLowerCase().trim() === 'y' || ... === 'yes'
Confirmed(a) ==
    \/ Trim(ToLowerCase(a)) = <<"y">>
    \/ Trim(ToLowerCase(a)) = <<"y", "e", "s">>

\* what the try block of requestResponse does once rl.question resolved to a
Settle(m, a) ==
    IF m.defaultResponse.type # "boolean"
    THEN Resolved(ConvertAnswer(m, FinalAnswer(m, a)))
    ELSE IF ~Confirmed(a) THEN Rejected("Aborted by user")
         ELSE Resolved(Bool(Confirmed(a)))

\* props?.requireApproval ?? RequireApproval.BROADENING
PolicyOf(p) == IF p = Absent THEN BROADENING ELSE p

\* what the operator may type at a prompt
Answers == StringsUpTo(MaxLen)

\* rl.close() at the end of the try block instead of in a finally block
CloseOnReturnOnly(open, result) ==
    IF result.kind = "resolved" THEN open - 1 ELSE open

\* finally { rl.close() }: runs however the try block ended; open is the
\* number of interfaces open before it
Finally(open, result) == open - 1

HostInit ==
    /\ hostPc = "none"
    /\ props = Absent
    /\ requireDeployApproval = Absent
    /\ msg = NoRequest
    /\ rlOpen = 0
    /\ rlCreated = 0
    /\ asked = <<>>
    /\ answer = <<>>
    /\ outcome = Pending

\* new InteractiveIoHost(props)
Construct ==
    /\ hostPc = "none"
    /\ cliPc = "start"
    /\ hostPc' = "ready"
    /\ \E p \in RequireApproval \cup {Absent} :
          /\ props' = p
          /\ requireDeployApproval' = PolicyOf(p)
    /\ UNCHANGED <<msg, rlOpen, rlCreated, asked, answer, outcome>>
    /\ UNCHANGED <<cliVars, execVars>>

\* requestResponse(msg) up to its first await: either the request is approved
\* without a prompt, or an interface is created and the question is put
RequestResponse ==
    /\ hostPc = "ready"
    /\ answer' = <<>>
    /\ \E m \in Requests :
          /\ msg' = m
          /\ IF SkipApprovalStep(requireDeployApproval, m)
             THEN /\ outcome' = Resolved(Bool(TRUE))
                  /\ hostPc' = "settled"
                  /\ rlCreated' = 0
                  /\ asked' = <<>>
                  /\ UNCHANGED rlOpen
             ELSE /\ outcome' = Pending
                  /\ hostPc' = "waiting"
                  /\ rlCreated' = 1
                  /\ rlOpen' = rlOpen + 1
                  /\ asked' = <<PromptText(m)>>
    /\ UNCHANGED <<props, requireDeployApproval>>
    /\ UNCHANGED <<cliVars, execVars>>

\* rl.question resolves to the typed line a; the rest of the try block runs,
\* then the finally block closes the interface
Answer ==
    /\ hostPc = "waiting"
    /\ \E a \in Answers :
          /\ answer' = a
          /\ outcome' = Settle(msg, a)
          /\ rlOpen' = Finally(rlOpen, Settle(msg, a))
    /\ hostPc' = "settled"
    /\ UNCHANGED <<props, requireDeployApproval, msg, rlCreated, asked>>
    /\ UNCHANGED <<cliVars, execVars>>

\* rl.question rejects (the input stream ended); the finally block closes the
\* interface and the rejection propagates
QuestionFails ==
    /\ hostPc = "waiting"
    /\ outcome' = Rejected("question failed")
    /\ rlOpen' = Finally(rlOpen, Rejected("question failed"))
    /\ hostPc' = "settled"
    /\ UNCHANGED <<props, requireDeployApproval, msg, rlCreated, asked, answer>>
    /\ UNCHANGED <<cliVars, execVars>>

\* the toolkit has taken the settlement; the host is ready for the next request
Return ==
    /\ hostPc = "settled"
    /\ hostPc' = "ready"
    /\ msg' = NoRequest
    /\ rlCreated' = 0
    /\ asked' = <<>>
    /\ answer' = <<>>
    /\ outcome' = Pending
    /\ UNCHANGED <<props, requireDeployApproval, rlOpen>>
    /\ UNCHANGED <<cliVars, execVars>>

HostNext ==
    \/ Construct
    \/ RequestResponse
    \/ Answer
    \/ QuestionFails
    \/ Return

\* ------------------------------------------------------------ bin/index.ts

\* the commands registered on the program
COMMAND_NAME == {"deploy", "synth", "hotswap", "watch", "diff"}

StackNames == {"A", "B"}

SeqsUpTo(S, n) == UNION {[1..k -> S] : k \in 0..n}

\* what can follow --require-approval: the spellings the option's help
\* names and the values of the RequireApproval enum
TypedApprovals ==
    {"BROADENING", "NEVER", "ANY_CHANGE", "broadening", "never", "any-change"}

\* a command line: <program> <commandName> [options] [stackNames...]
CommandLines ==
    [commandName : COMMAND_NAME,
     profile : {NoName, Some("dev")},
     requireApproval : {NoName} \cup {Some(t) : t \in TypedApprovals},
     context : SeqsUpTo({"k=v"}, MaxContext),
     all : BOOLEAN,
     stackNames : SeqsUpTo(StackNames, MaxStacks)]

NoCommandLine ==
    [commandName |-> Absent, profile |-> NoName, requireApproval |-> NoName,
     context |-> <<>>, all |-> FALSE, stackNames |-> <<>>]

\* a JavaScript object is a function from its keys to their values
Has(o, k) == k \in DOMAIN o

\* { ...a, ...b }
Spread(a, b) ==
    [k \in DOMAIN a \cup DOMAIN b |-> IF k \in DOMAIN b THEN b[k] ELSE a[k]]

\* the options object commander passes to the action handler: an option that
\* was not given and has no default is not a key of it
OptionsOf(line) ==
    LET keys == {"context"}
                \cup (IF line.profile.has THEN {"profile"} ELSE {})
                \cup (IF line.requireApproval.has THEN {"requireApproval"} ELSE {})
                \cup (IF line.all THEN {"all"} ELSE {})
    IN  [k \in keys |->
            CASE k = "context"         -> line.context
              [] k = "profile"         -> line.profile.val
              [] k = "requireApproval" -> line.requireApproval.val
              [] k = "all"             -> TRUE]

\* the first parameter of the action handler: the variadic argument
\* [stackNames...], an array
ArgsOf(line) == line.stackNames

\* the own enumerable keys of an array: "0", "1", ...
ArrayAsObject(arr) ==
    [k \in {ToString(i - 1) : i \in DOMAIN arr} |->
        arr[CHOOSE i \in DOMAIN arr : ToString(i - 1) = k]]

\* { ...options, ...args, commandName }
ParseInput(line, commandName) ==
    Spread(Spread(OptionsOf(line), ArrayAsObject(ArgsOf(line))),
           [commandName |-> commandName])

\* the schema with requireApproval defaulting to NEVER
SchemaDataDefaultNever(input) ==
    [commandName     |-> input.commandName,
     profile         |-> IF Has(input, "profile") THEN Some(input.profile) ELSE NoName,
     requireApproval |-> IF Has(input, "requireApproval")
                         THEN input.requireApproval ELSE NEVER,
     all             |-> IF Has(input, "all") THEN input.all ELSE FALSE,
     context         |-> IF Has(input, "context") THEN input.context ELSE <<>>,
     stackNames      |-> IF Has(input, "stackNames") THEN input.stackNames ELSE <<>>,
     cdkJsonPath     |-> IF Has(input, "cdkJsonPath") THEN Some(input.cdkJsonPath) ELSE NoName]

\* commandConfigSchema's object: each field read from the input or defaulted,
\* keys the schema does not name dropped
SchemaData(input) ==
    [commandName     |-> input.commandName,
     profile         |-> IF Has(input, "profile") THEN Some(input.profile) ELSE NoName,
     requireApproval |-> IF Has(input, "requireApproval")
                         THEN input.requireApproval ELSE BROADENING,
     all             |-> IF Has(input, "all") THEN input.all ELSE FALSE,
     context         |-> IF Has(input, "context") THEN input.context ELSE <<>>,
     stackNames      |-> IF Has(input, "stackNames") THEN input.stackNames ELSE <<>>,
     cdkJsonPath     |-> IF Has(input, "cdkJsonPath") THEN Some(input.cdkJsonPath) ELSE NoName]

\* the schema's field checks that a command line can fail: z.enum(COMMAND_NAME)
\* and z.enum(RequireApproval) (commander types the other fields)
SchemaFieldsValid(data) ==
    /\ data.commandName \in COMMAND_NAME
    /\ data.requireApproval \in RequireApproval

\* .refine(data => !data.all || !data.stackNames.length)
Refine(data) == ~data.all \/ Len(data.stackNames) = 0

\* a failed parse carries no data
NoConfig == [success |-> FALSE, data |-> SchemaData([commandName |-> Absent])]

\* commandConfigSchema.safeParse(input)
SafeParse(input) ==
    LET data == SchemaData(input)
    IN  IF SchemaFieldsValid(data) /\ Refine(data)
        THEN [success |-> TRUE, data |-> data]
        ELSE NoConfig

\* the handler without its check of config.success
RejectsNothing(cfg) == FALSE

\* if (!config.success) { console.error(...); process.exit(1); }
Rejects(cfg) == ~cfg.success

CliInit ==
    /\ cliPc = "start"
    /\ argv = NoCommandLine
    /\ config = NoConfig
    /\ stderr = FALSE
    /\ exitCode = <<>>
    /\ cdkCli = <<>>
    /\ executed = <<>>

ExecInit ==
    /\ selected = <<>>
    /\ calls = <<>>
    /\ inFlight = 0

\* program.parse(process.argv) runs the action handler of the command typed:
\* the handler up to its await of cdkCli.execute
Main ==
    /\ cliPc = "start"
    /\ hostPc = "none"
    /\ \E line \in CommandLines :
          LET cfg == SafeParse(ParseInput(line, line.commandName))
          IN  /\ argv' = line
              /\ config' = cfg
              /\ IF Rejects(cfg)
                 THEN /\ stderr' = TRUE
                      /\ exitCode' = <<1>>
                      /\ cliPc' = "exited"
                      /\ UNCHANGED <<cdkCli, executed>>
                 ELSE /\ cdkCli' = Append(cdkCli, cfg.data)
                      /\ executed' = Append(executed, cfg.data)
                      /\ cliPc' = "executing"
                      /\ UNCHANGED <<stderr, exitCode>>
    /\ UNCHANGED <<hostVars, execVars>>

\* ------------------------------------------------- command executor (CdkCli)

\* the commands with cross-stack ordering concerns: those that deploy or
\* synthesize
PerStackCommands == {"deploy", "synth", "hotswap"}

\* the stack selections a cloud assembly can answer with
Selections ==
    {ss \in SeqsUpTo(StackNames, MaxStacks) :
        \A i, j \in DOMAIN ss : i # j => ss[i] # ss[j]}

\* the toolkit calls execute is to issue for a command and a selection
Planned(commandName, ss) ==
    IF commandName \in PerStackCommands
    THEN [i \in DOMAIN ss |-> <<ss[i]>>]
    ELSE <<ss>>

\* execute obtains the cloud-assembly source and the selected stacks
SelectStacks ==
    /\ cliPc = "executing"
    /\ \E ss \in Selections : selected' = ss
    /\ cliPc' = "running"
    /\ UNCHANGED <<calls, inFlight>>
    /\ UNCHANGED <<argv, config, stderr, exitCode, cdkCli, executed>>
    /\ UNCHANGED hostVars

\* the next toolkit call is issued once none is in flight
StartCall ==
    /\ cliPc = "running"
    /\ inFlight = 0
    /\ Len(calls) < Len(Planned(executed[1].commandName, selected))
    /\ calls' = Append(calls, Planned(executed[1].commandName, selected)[Len(calls) + 1])
    /\ inFlight' = inFlight + 1
    /\ UNCHANGED <<selected, cliVars, hostVars>>

\* the call in flight completes
CompleteCall ==
    /\ cliPc = "running"
    /\ inFlight > 0
    /\ inFlight' = inFlight - 1
    /\ UNCHANGED <<selected, calls, cliVars, hostVars>>

\* the call in flight throws: execute rejects, nothing is retried
FailCall ==
    /\ cliPc = "running"
    /\ inFlight > 0
    /\ inFlight' = inFlight - 1
    /\ cliPc' = "failed"
    /\ UNCHANGED <<selected, calls>>
    /\ UNCHANGED <<argv, config, stderr, exitCode, cdkCli, executed>>
    /\ UNCHANGED hostVars

\* every planned call has completed: execute resolves
Finish ==
    /\ cliPc = "running"
    /\ inFlight = 0
    /\ Len(calls) = Len(Planned(executed[1].commandName, selected))
    /\ cliPc' = "done"
    /\ UNCHANGED <<selected, calls, inFlight>>
    /\ UNCHANGED <<argv, config, stderr, exitCode, cdkCli, executed>>
    /\ UNCHANGED hostVars

CliNext ==
    \/ Main
    \/ SelectStacks
    \/ StartCall
    \/ CompleteCall
    \/ FailCall
    \/ Finish

\* ------------------------------------------------------------ specification

Init == HostInit /\ CliInit /\ ExecInit

Next == HostNext \/ CliNext

Spec == Init /\ [][Next]_vars

\* ------------------------------------------------------------------ claims

\* a request is being handled or has been settled
Handling == hostPc \in {"waiting", "settled"}

\* the request's permissionChangeType is 'none' or 'non-broadening'
NarrowChange ==
    /\ msg.data.present
    /\ msg.data.permissionChangeType \in {"none", "non-broadening"}

\* the current call settled without a prompt, resolving to true
AutoApproved ==
    /\ hostPc = "settled"
    /\ asked = <<>>
    /\ rlCreated = 0
    /\ outcome = Resolved(Bool(TRUE))

\* C1: for a CDK_TOOLKIT_I5060 request the operator is asked exactly when the
\* policy is ANYCHANGE, or BROADENING with a permissionChangeType that is
\* neither 'none' nor 'non-broadening' (absent counts as neither); otherwise
\* the call resolves to true with nothing asked.
C1_ApprovalDecision ==
    (Handling /\ msg.code = "CDK_TOOLKIT_I5060") =>
        LET mustAsk ==
                \/ requireDeployApproval = ANYCHANGE
                \/ requireDeployApproval = BROADENING /\ ~NarrowChange
        IN  /\ (asked # <<>>) <=> mustAsk
            /\ ~mustAsk => AutoApproved

C1_Witness ==
    /\ hostPc = "settled"
    /\ msg.code = "CDK_TOOLKIT_I5060"
    /\ requireDeployApproval = BROADENING
    /\ msg.data.present
    /\ msg.data.permissionChangeType = "broadening"
    /\ Len(asked) = 1

\* the answer without its leading and trailing spaces, by position
CoreOf(a) ==
    LET inked == {i \in DOMAIN a : a[i] # " "}
    IN  IF inked = {} THEN <<>>
        ELSE SubSeq(a, CHOOSE i \in inked : \A j \in inked : i <= j,
                       CHOOSE i \in inked : \A j \in inked : i >= j)

\* the question was put and the operator's line came back
Answered ==
    /\ hostPc = "settled"
    /\ Len(asked) = 1
    /\ outcome.error # "question failed"

\* a non-blank answer is converted from its trimmed text, to a number for a
\* number default and to a string otherwise
ConvertedFromTrimmed ==
    (Answered /\ msg.defaultResponse.type # "boolean" /\ CoreOf(answer) # <<>>) =>
        /\ outcome.kind = "resolved"
        /\ outcome.value =
              IF msg.defaultResponse.type = "number"
              THEN Num(NumberOf(CoreOf(answer)))
              ELSE Str(CoreOf(answer))

\* C2 as stated: the result is a number for a number default and a string
\* otherwise, computed from the trimmed answer, and a blank answer yields the
\* request's default response value.
C2_Original ==
    /\ ConvertedFromTrimmed
    /\ (Answered /\ msg.defaultResponse.type # "boolean" /\ CoreOf(answer) = <<>>) =>
          outcome = Resolved(msg.defaultResponse)

\* C2 amended: as stated for number and string defaults; for any other
\* non-boolean default a blank answer yields the string util.format prints
\* for the default (the text "undefined" for undefined), not the default.
C2_AnswerConversion ==
    /\ ConvertedFromTrimmed
    /\ (Answered /\ msg.defaultResponse.type # "boolean" /\ CoreOf(answer) = <<>>) =>
          outcome =
              IF msg.defaultResponse.type \in {"number", "string"}
              THEN Resolved(msg.defaultResponse)
              ELSE Resolved(Str(<<"u", "n", "d", "e", "f", "i", "n", "e", "d">>))

C2_Witness ==
    /\ Answered
    /\ msg.defaultResponse = Num(Finite(7, 1))
    /\ answer = <<" ">>
    /\ outcome = Resolved(Num(Finite(7, 1)))

Spaces(k) == [i \in 1..k |-> " "]

\* the lines that read as yes: y or yes in any case, spaces around them
YesAnswers ==
    {Spaces(i) \o w \o Spaces(j) :
        i \in 0..MaxLen + 1, j \in 0..MaxLen + 1,
        w \in {<<"y">>, <<"Y">>, <<"y", "e", "s">>, <<"Y", "e", "s">>}}

\* C3: prompted for a boolean default, the call resolves to true exactly when
\* the answer trimmed and lower-cased is 'y' or 'yes', and otherwise rejects
\* with 'Aborted by user'; it never resolves to false or to the default.
C3_Confirmation ==
    (Answered /\ msg.defaultResponse.type = "boolean") =>
        IF answer \in YesAnswers
        THEN outcome = Resolved(Bool(TRUE))
        ELSE outcome = Rejected("Aborted by user")

C3_Witness ==
    /\ Answered
    /\ msg.defaultResponse = Bool(FALSE)
    /\ answer = <<"Y">>
    /\ outcome = Resolved(Bool(TRUE))

\* the command line was handled
Handled == cliPc # "start"

\* C4 as stated: the configuration given to CdkCli's constructor and to
\* execute has stackNames equal to the stack names typed, in order.
C4_StackNamesPassed ==
    (Handled /\ cdkCli # <<>>) =>
        /\ cdkCli[1].stackNames = argv.stackNames
        /\ executed[1].stackNames = argv.stackNames

\* C5 as stated: --all together with stack names is rejected: usage printed,
\* exit code 1, no CdkCli constructed or executed.
C5_AllWithStacksRejected ==
    (Handled /\ argv.all /\ argv.stackNames # <<>>) =>
        /\ stderr
        /\ exitCode = <<1>>
        /\ cdkCli = <<>>
        /\ executed = <<>>

\* the policy each documented spelling stands for
DocumentedApproval(t) ==
    CASE t = "BROADENING" -> BROADENING
      [] t = "NEVER"      -> NEVER
      [] t = "ANY_CHANGE" -> ANYCHANGE

\* C6 as stated: each documented value of --require-approval is accepted and
\* yields the corresponding policy.
C6_DocumentedValuesAccepted ==
    ( /\ Handled
      /\ argv.requireApproval.has
      /\ argv.requireApproval.val \in {"BROADENING", "NEVER", "ANY_CHANGE"}
      /\ ~(argv.all /\ argv.stackNames # <<>>) ) =>
        /\ config.success
        /\ config.data.requireApproval = DocumentedApproval(argv.requireApproval.val)

\* the command line names the command and at most a profile
BareCommandLine ==
    /\ ~argv.requireApproval.has
    /\ ~argv.all
    /\ argv.context = <<>>
    /\ argv.stackNames = <<>>

\* C7: a command line without --require-approval, --all, --context and stack
\* names yields a valid configuration with requireApproval BROADENING, all
\* false, context [] and stackNames []; and a host constructed without
\* requireApproval decides as one constructed with BROADENING.
C7_Defaults ==
    /\ (Handled /\ BareCommandLine) =>
          /\ config.success
          /\ config.data.requireApproval = BROADENING
          /\ config.data.all = FALSE
          /\ config.data.context = <<>>
          /\ config.data.stackNames = <<>>
          /\ cdkCli = <<config.data>>
    /\ (hostPc # "none" /\ props = Absent) =>
          /\ requireDeployApproval = BROADENING
          /\ Handling =>
                ((asked = <<>>) <=> (msg.code = "CDK_TOOLKIT_I5060" /\ NarrowChange))

C7_Witness ==
    /\ Handled
    /\ BareCommandLine
    /\ config.success
    /\ config.data.requireApproval = BROADENING

\* one call per stack, in the order selected
OnePerStack(ss) == [i \in DOMAIN ss |-> <<ss[i]>>]

C9_OtherCodesAlwaysAsk ==
    (Handling /\ msg.code # "CDK_TOOLKIT_I5060") =>
        /\ Len(asked) = 1
        /\ rlCreated = 1

C9_Witness ==
    /\ hostPc = "settled"
    /\ msg.code = "CDK_TOOLKIT_I7010"
    /\ requireDeployApproval = NEVER
    /\ NarrowChange
    /\ Len(asked) = 1
    /\ outcome.kind = "resolved"

\* C10: every interface a call opens is closed before the call settles, on
\* every path; an auto-approved request opens none; a call asks at most one
\* question.
C10_InterfaceClosed ==
    /\ hostPc # "waiting" => rlOpen = 0
    /\ hostPc = "waiting" => (rlOpen = 1 /\ outcome = Pending)
    /\ Len(asked) <= 1
    /\ rlCreated = Len(asked)
    /\ (hostPc = "settled" /\ outcome = Resolved(Bool(TRUE)) /\ asked = <<>>) =>
          rlCreated = 0
    /\ hostPc = "settled" => outcome.kind \in {"resolved", "rejected"}

C10_Witness ==
    /\ hostPc = "settled"
    /\ outcome = Rejected("Aborted by user")
    /\ rlCreated = 1
    /\ rlOpen = 0

====
